---- MODULE Spec2Model ----
(***************************************************************************)
(* Model of the signature-extraction engine of context_builder:            *)
(*   - main.py                extract_from_file (Python, ast based)        *)
(*   - javascript_parser.py   JavaScriptParser  (regex line scanner)       *)
(*   - typescript_parser.py   TypeScriptParser  (regex line scanner)       *)
(*                                                                         *)
(* Text is modelled as a sequence of units.  In the parameter cleaners a   *)
(* unit is one character.  In the line scanners a line is a sequence of    *)
(* tokens (a word matched by \w+, or one punctuation mark) written with a  *)
(* single blank between neighbouring tokens, so every \s+ and \s* of the   *)
(* patterns is satisfied between two tokens.                               *)
(***************************************************************************)
EXTENDS Integers, Sequences, FiniteSets, TLC

VARIABLES
    lang,        \* which extractor runs: "py", "js", "ts", or "clean" (cleaner called directly)
    pc,          \* position of the call: "start", "walk", "scan", "done", "raised"
    io,          \* outcome of file.read_text: "ok" or "unreadable"
    src,         \* Python: outcome of ast.parse: "ok", "SyntaxError", "RecursionError"
    tree,        \* Python: the parsed syntax tree (sequence of nodes, pre-order numbered)
    todo,        \* Python: the deque of ast.walk
    lines,       \* JS/TS: content.split("\n"), each line stripped and tokenised
    i,           \* JS/TS: number of the line scanned last (enumerate(lines, 1))
    func_lines,  \* the function records accumulated so far
    cls_lines,   \* the class records accumulated so far
    result,      \* what the caller gets: "none" (running), "returned", or the exception raised
    p_in,        \* cleaner: argument of the last call
    p_list,      \* cleaner: the list `cleaned` of the last call
    p_out,       \* cleaner: return value of the last call
    p_calls      \* cleaner: number of calls made

vars == <<lang, pc, io, src, tree, todo, lines, i, func_lines, cls_lines,
          result, p_in, p_list, p_out, p_calls>>

None == "<none>"

----------------------------------------------------------------------------
(* Bounds *)

MaxLen == 4        \* longest raw parameter string enumerated, in characters
MaxCalls == 2      \* how many times the cleaner is applied in a row
MaxNodes == 4      \* nodes of a Python syntax tree below the Module node
MaxArgs == 2       \* longest positional-only / positional parameter list
MaxLines == 2      \* lines of a JavaScript / TypeScript file
MaxBody == 3       \* statements in the body of a Python class

----------------------------------------------------------------------------
(* Python string helpers: str.strip, str.join, str.split, `in` *)

RECURSIVE LStrip(_)
LStrip(s) == IF s # <<>> /\ Head(s) = " " THEN LStrip(Tail(s)) ELSE s

RECURSIVE RStrip(_)
RStrip(s) == IF s # <<>> /\ s[Len(s)] = " " THEN RStrip(SubSeq(s, 1, Len(s) - 1)) ELSE s

Strip(s) == RStrip(LStrip(s))

Contains(s, c) == \E k \in 1..Len(s) : s[k] = c

FirstIndex(s, c) == CHOOSE k \in 1..Len(s) : s[k] = c /\ \A j \in 1..(k - 1) : s[j] # c

\* s.split(c, 1)[0] and s.split(c)[0]: the text before the first c
BeforeFirst(s, c) == IF Contains(s, c) THEN SubSeq(s, 1, FirstIndex(s, c) - 1) ELSE s

\* s.split(c, 1)[1]: the text after the first c
AfterFirst(s, c) == SubSeq(s, FirstIndex(s, c) + 1, Len(s))

RECURSIVE JoinCommaSpace(_)
JoinCommaSpace(l) ==
    IF l = <<>> THEN <<>>
    ELSE IF Len(l) = 1 THEN l[1]
    ELSE l[1] \o <<",", " ">> \o JoinCommaSpace(Tail(l))

----------------------------------------------------------------------------
(* JavaScriptParser._clean_js_params *)

\* the character loop: st = [list, cur, depth]
JsCharStepFlat(st, char) ==
    IF char = ","
    THEN [list |-> Append(st.list, Strip(st.cur)), cur |-> <<>>, depth |-> st.depth]
    ELSE [list |-> st.list, cur |-> Append(st.cur, char), depth |-> st.depth]

JsCharStep(st, char) ==
    IF char = "(" THEN [list |-> st.list, cur |-> Append(st.cur, char), depth |-> st.depth + 1]
    ELSE IF char = ")" THEN [list |-> st.list, cur |-> Append(st.cur, char), depth |-> st.depth - 1]
    ELSE IF char = "," /\ st.depth = 0
         THEN [list |-> Append(st.list, Strip(st.cur)), cur |-> <<>>, depth |-> st.depth]
    ELSE [list |-> st.list, cur |-> Append(st.cur, char), depth |-> st.depth]

RECURSIVE JsCharLoop(_, _)
JsCharLoop(st, rest) ==
    IF rest = <<>> THEN st ELSE JsCharLoop(JsCharStep(st, Head(rest)), Tail(rest))

JsParamList(params) ==
    LET st == JsCharLoop([list |-> <<>>, cur |-> <<>>, depth |-> 0], params)
    IN  IF Strip(st.cur) # <<>> THEN Append(st.list, Strip(st.cur)) ELSE st.list

JsCleanOne(param) ==
    IF Contains(param, "=") THEN Strip(Strip(BeforeFirst(param, "="))) ELSE Strip(param)

JsCleanedList(params) ==
    IF params = <<>> THEN <<>>
    ELSE LET pl == JsParamList(params) IN [k \in 1..Len(pl) |-> JsCleanOne(pl[k])]

clean_js_params(params) == JoinCommaSpace(JsCleanedList(params))

----------------------------------------------------------------------------
(* TypeScriptParser._clean_typescript_params *)

TsCharStep(st, char) ==
    IF char = "(" THEN [list |-> st.list, cur |-> Append(st.cur, char), depth |-> st.depth + 1]
    ELSE IF char = ")" THEN [list |-> st.list, cur |-> Append(st.cur, char), depth |-> st.depth - 1]
    ELSE IF char = "," /\ st.depth = 0
         THEN [list |-> Append(st.list, Strip(st.cur)), cur |-> <<>>, depth |-> st.depth]
    ELSE [list |-> st.list, cur |-> Append(st.cur, char), depth |-> st.depth]

RECURSIVE TsCharLoop(_, _)
TsCharLoop(st, rest) ==
    IF rest = <<>> THEN st ELSE TsCharLoop(TsCharStep(st, Head(rest)), Tail(rest))

TsParamList(params) ==
    LET st == TsCharLoop([list |-> <<>>, cur |-> <<>>, depth |-> 0], params)
    IN  IF Strip(st.cur) # <<>> THEN Append(st.list, Strip(st.cur)) ELSE st.list

TsCleanOne(param) ==
    LET p == IF Contains(param, "=") THEN Strip(BeforeFirst(param, "=")) ELSE param
    IN  IF Contains(p, ":")
        THEN Strip(BeforeFirst(p, ":")) \o <<":", " ">> \o Strip(AfterFirst(p, ":"))
        ELSE Strip(p)

TsCleanedList(params) ==
    IF params = <<>> THEN <<>>
    ELSE LET pl == TsParamList(params) IN [k \in 1..Len(pl) |-> TsCleanOne(pl[k])]

clean_typescript_params(params) == JoinCommaSpace(TsCleanedList(params))

----------------------------------------------------------------------------
(* The cleaners called directly, and called again on their own result *)

Alphabet == {"a", ",", "=", "(", ")", " ", ":"}

SampleNested == <<"a", ",", " ", "b", "=", "f", "(", "1", ",", "2", ")">>   \* "a, b=f(1,2)"
SampleDefault == <<"y", "=", "1">>                                         \* "y=1"

IdlePy == src = "ok" /\ tree = <<>> /\ todo = <<>>
IdleScan == i = 0 /\ lines = <<>>
IdleClean == p_in = <<>> /\ p_list = <<>> /\ p_out = <<>> /\ p_calls = 0
NoRecords == func_lines = <<>> /\ cls_lines = <<>>

InitClean ==
    /\ lang \in {"js", "ts"}
    /\ pc = "clean"
    /\ io = "ok"
    /\ result = "none"
    /\ IdlePy /\ IdleScan /\ NoRecords
    /\ \/ \E n \in 0..MaxLen : p_in \in [1..n -> Alphabet]
       \/ p_in \in {SampleNested, SampleDefault}
    /\ p_list = <<>>
    /\ p_out = <<>>
    /\ p_calls = 0

\* the argument of the next call: the raw string first, then the previous result
NextArg == IF p_calls = 0 THEN p_in ELSE p_out

CleanJs ==
    /\ pc = "clean" /\ lang = "js" /\ p_calls < MaxCalls
    /\ p_in' = NextArg
    /\ p_list' = JsCleanedList(NextArg)
    /\ p_out' = clean_js_params(NextArg)
    /\ p_calls' = p_calls + 1
    /\ UNCHANGED <<lang, pc, io, src, tree, todo, lines, i, func_lines, cls_lines, result>>

CleanTs ==
    /\ pc = "clean" /\ lang = "ts" /\ p_calls < MaxCalls
    /\ p_in' = NextArg
    /\ p_list' = TsCleanedList(NextArg)
    /\ p_out' = clean_typescript_params(NextArg)
    /\ p_calls' = p_calls + 1
    /\ UNCHANGED <<lang, pc, io, src, tree, todo, lines, i, func_lines, cls_lines, result>>

NextClean == CleanJs \/ CleanTs

SpecClean == InitClean /\ [][NextClean]_vars

----------------------------------------------------------------------------
(* Claims about parameter cleaning *)

\* C7: cleaning is idempotent: a call on the result of a previous call returns
\* its argument unchanged, for both cleaners.
C7_Idempotent == p_calls >= 2 => p_out = p_in

\* number of "(" minus number of ")" among the first k characters of s
DepthAt(s, k) ==
    Cardinality({j \in 1..k : s[j] = "("}) - Cardinality({j \in 1..k : s[j] = ")"})

TopCommas(s) == {k \in 1..Len(s) : s[k] = "," /\ DepthAt(s, k - 1) = 0}

LastTopComma(s) == IF TopCommas(s) = {} THEN 0
                   ELSE CHOOSE k \in TopCommas(s) : \A j \in TopCommas(s) : j <= k

TailSegment(s) == SubSeq(s, LastTopComma(s) + 1, Len(s))

\* C8: the raw string is split only at commas of parenthesis depth 0 (one
\* parameter per depth-0 comma, plus the text after the last one when it is
\* not blank), no cleaned parameter keeps a "=", "a, b=f(1,2)" gives exactly
\* a and b, and "y=1" gives y.
C8_SplitTopLevel ==
    p_calls = 1 =>
        /\ Len(p_list) = Cardinality(TopCommas(p_in))
                          + (IF Strip(TailSegment(p_in)) # <<>> THEN 1 ELSE 0)
        /\ \A k \in 1..Len(p_list) : ~Contains(p_list[k], "=")
        /\ p_in = SampleNested => p_list = << <<"a">>, <<"b">> >> /\ p_out = <<"a", ",", " ", "b">>
        /\ p_in = SampleDefault => p_list = << <<"y">> >> /\ p_out = <<"y">>

C8_Witness ==
    /\ p_calls = 1 /\ lang = "ts" /\ p_in = SampleNested
    /\ p_list = << <<"a">>, <<"b">> >>

----------------------------------------------------------------------------
(* main.py: the Python syntax tree handed to extract_from_file *)

\* A tree is a sequence of nodes below the Module node 0.  Nodes are numbered
\* in source (pre-order) order, one node per line, so a node's number is its
\* lineno; parent is the number of the enclosing node.
FuncKinds == {"FunctionDef", "AsyncFunctionDef"}
Kinds == FuncKinds \cup {"ClassDef", "Other"}

AnArg(n, a) == [arg |-> n, annotation |-> a]

NoArguments == [posonlyargs |-> <<>>, args |-> <<>>, vararg |-> None, kwarg |-> None]

PlainNode(k, par) ==
    [kind |-> k, parent |-> par, name |-> IF k = "ClassDef" THEN "C" ELSE "f",
     arguments |-> NoArguments, returns |-> None,
     decorator_list |-> <<>>, targets |-> <<>>, annotation |-> None]

RECURSIVE AncestorsOrSelf(_, _)
AncestorsOrSelf(par, k) == IF k = 0 THEN {0} ELSE {k} \cup AncestorsOrSelf(par, par[k])

\* parent vectors of the trees with n nodes whose numbering is the pre-order one
Shapes(n) ==
    {par \in [1..n -> 0..(n - 1)] :
        \A k \in 1..n : /\ par[k] < k
                        /\ k > 1 => par[k] \in AncestorsOrSelf(par, k - 1)}

\* a file of nested definitions and statements, none with parameters
ShapeTree(par, kd) == [k \in 1..Len(par) |-> PlainNode(kd[k], par[k])]

ArgChoices == {AnArg("a", None), AnArg("b", "int"), AnArg("c", None)}

\* a file holding one definition, with its parameter lists and annotations
SignatureTree(k, po, ar, va, kw, rt) ==
    <<[kind |-> k, parent |-> 0, name |-> "f",
       arguments |-> [posonlyargs |-> po, args |-> ar, vararg |-> va, kwarg |-> kw],
       returns |-> rt]>>

\* assignment targets and decorators: ast.Name or ast.Attribute on a Name
NameExpr(id) == [kind |-> "Name", id |-> id]

AttributeExpr(v, a) == [kind |-> "Attribute", value |-> v, attr |-> a]

AssignKinds == {"Assign", "AnnAssign"}

\* a statement of a class body or of an initializer; an Assign has one target
\* per `=`, an AnnAssign has one target and an annotation
Statement(k, nm, tg, an, dl, rt) ==
    [kind |-> k, parent |-> 1, name |-> nm,
     arguments |-> IF k = "FunctionDef"
                   THEN [NoArguments EXCEPT !.args = <<AnArg("self", None)>>]
                   ELSE NoArguments,
     returns |-> rt, decorator_list |-> dl, targets |-> tg, annotation |-> an]

AssignStmt(tg) == Statement("Assign", None, tg, None, <<>>, None)

AnnAssignStmt(t, an) == Statement("AnnAssign", None, <<t>>, an, <<>>, None)

MethodStmt(nm, dl, rt) == Statement("FunctionDef", nm, <<>>, None, dl, rt)

\* the statements a class body is drawn from, each with the statements nested
\* in it (the body of a method)
Simple(st) == [node |-> st, inner |-> <<>>]

Initializer(body) == [node |-> MethodStmt("__init__", <<>>, None), inner |-> body]

BodyChoices ==
    { Simple(AssignStmt(<<NameExpr("x")>>)),
      Simple(AssignStmt(<<NameExpr("x"), NameExpr("y")>>)),
      Simple(AnnAssignStmt(NameExpr("x"), "int")),
      Simple(AnnAssignStmt(NameExpr("y"), "str")),
      Simple(MethodStmt("p", <<NameExpr("property")>>, "int")),
      Simple(MethodStmt("q", <<NameExpr("property")>>, None)),
      Simple(MethodStmt("p", <<AttributeExpr("p", "setter")>>, None)),
      Initializer(<<AssignStmt(<<AttributeExpr("self", "x")>>)>>),
      Initializer(<<AssignStmt(<<AttributeExpr("self", "x")>>),
                    AnnAssignStmt(AttributeExpr("self", "x"), "int")>>),
      Initializer(<<AnnAssignStmt(AttributeExpr("self", "y"), "str"),
                    AssignStmt(<<AttributeExpr("o", "x")>>)>>) }

\* the nodes of a class body, numbered in source order from `at`
RECURSIVE ClassBody(_, _)
ClassBody(stmts, at) ==
    IF stmts = <<>> THEN <<>>
    ELSE LET s == Head(stmts) IN
         <<s.node>>
         \o [k \in 1..Len(s.inner) |-> [s.inner[k] EXCEPT !.parent = at]]
         \o ClassBody(Tail(stmts), at + 1 + Len(s.inner))

\* a file holding one class; node numbers follow the order of the lines the
\* statements start on
ClassTree(stmts) == <<PlainNode("ClassDef", 0)>> \o ClassBody(stmts, 2)

KindOf(t, n) == IF n = 0 THEN "Module" ELSE t[n].kind

\* ast.iter_child_nodes: the nested nodes, in source order
RECURSIVE ChildrenFrom(_, _, _)
ChildrenFrom(t, n, k) ==
    IF k > Len(t) THEN <<>>
    ELSE (IF t[k].parent = n THEN <<k>> ELSE <<>>) \o ChildrenFrom(t, n, k + 1)

Children(t, n) == ChildrenFrom(t, n, 1)

\* ast.walk: todo.popleft(), then todo.extend(iter_child_nodes(node))
WalkDepthFirst(t, td) == Children(t, Head(td)) \o Tail(td)

WalkTodo(t, td) == Tail(td) \o Children(t, Head(td))

----------------------------------------------------------------------------
(* main.py: extract_from_file *)

RelPath == "pkg/mod.py"

RenderArg(a) == IF a.annotation # None THEN <<a.arg, ": ", a.annotation>> ELSE <<a.arg>>

RenderArgs(arguments) == [k \in 1..Len(arguments.args) |-> RenderArg(arguments.args[k])]

FunctionLine(t, n) ==
    [path |-> RelPath, line |-> n, name |-> t[n].name,
     args |-> RenderArgs(t[n].arguments)
              \o (IF t[n].arguments.vararg # None THEN << <<"*", t[n].arguments.vararg>> >> ELSE <<>>)
              \o (IF t[n].arguments.kwarg # None THEN << <<"**", t[n].arguments.kwarg>> >> ELSE <<>>),
     ret |-> IF t[n].returns # None THEN t[n].returns ELSE "Unknown"]

RECURSIVE Concat(_)
Concat(ss) == IF ss = <<>> THEN <<>> ELSE Head(ss) \o Concat(Tail(ss))

\* ast.parse is called without type_comments, so type_comment is always None
type_of_assign(node) ==
    IF node.kind = "AnnAssign" /\ node.annotation # None THEN node.annotation
    ELSE "Unknown"

NameTargets(node) ==
    Concat([k \in 1..Len(node.targets) |->
        IF node.targets[k].kind = "Name"
        THEN << <<node.targets[k].id, type_of_assign(node)>> >> ELSE <<>>])

collect_class_attrs(t, cls) ==
    LET body == Children(t, cls) IN
    Concat([k \in 1..Len(body) |->
        IF t[body[k]].kind \in AssignKinds THEN NameTargets(t[body[k]]) ELSE <<>>])

\* list(ast.walk(stmt)), started from the queue td
RECURSIVE Walk(_, _)
Walk(t, td) == IF td = <<>> THEN <<>> ELSE <<Head(td)>> \o Walk(t, WalkTodo(t, td))

SelfTargets(node) ==
    Concat([k \in 1..Len(node.targets) |->
        IF node.targets[k].kind = "Attribute" /\ node.targets[k].value = "self"
        THEN << <<node.targets[k].attr, type_of_assign(node)>> >> ELSE <<>>])

InitAssignments(t, stmt) ==
    LET nodes == Walk(t, <<stmt>>) IN
    Concat([k \in 1..Len(nodes) |->
        IF t[nodes[k]].kind \in AssignKinds THEN SelfTargets(t[nodes[k]]) ELSE <<>>])

collect_instance_attrs(t, cls) ==
    LET body == Children(t, cls) IN
    Concat([k \in 1..Len(body) |->
        IF t[body[k]].kind = "FunctionDef" /\ t[body[k]].name = "__init__"
        THEN InitAssignments(t, body[k]) ELSE <<>>])

IsPropertyDecorator(dec) ==
    \/ dec.kind = "Name" /\ dec.id = "property"
    \/ dec.kind = "Attribute" /\ dec.attr = "property"

PropertyPairs(stmt) ==
    Concat([k \in 1..Len(stmt.decorator_list) |->
        IF IsPropertyDecorator(stmt.decorator_list[k])
        THEN << <<stmt.name, IF stmt.returns # None THEN stmt.returns ELSE "Unknown">> >>
        ELSE <<>>])

collect_properties(t, cls) ==
    LET body == Children(t, cls) IN
    Concat([k \in 1..Len(body) |->
        IF t[body[k]].kind = "FunctionDef" THEN PropertyPairs(t[body[k]]) ELSE <<>>])

\* sorted() on (name, type) pairs: strings compare by code point
StringOrder == <<"Unknown", "int", "str", "x", "y">>

Rank(s) == CHOOSE k \in 1..Len(StringOrder) : StringOrder[k] = s

PairLess(a, b) == Rank(a[1]) < Rank(b[1]) \/ (a[1] = b[1] /\ Rank(a[2]) < Rank(b[2]))

RECURSIVE Insert(_, _)
Insert(p, s) ==
    IF s = <<>> THEN <<p>>
    ELSE IF PairLess(p, Head(s)) THEN <<p>> \o s
    ELSE <<Head(s)>> \o Insert(p, Tail(s))

RECURSIVE sorted(_)
sorted(s) == IF s = <<>> THEN <<>> ELSE Insert(Head(s), sorted(Tail(s)))

\* the bullet of a summary line, written in ASCII
Indent == "    * "

SummaryLine(label, pairs) ==
    IF pairs # <<>> THEN << [indent |-> Indent, label |-> label, items |-> pairs] >>
    ELSE <<>>

ClassLines(t, n) ==
    << [path |-> RelPath, line |-> n, header |-> <<"class", t[n].name>>] >>
    \o SummaryLine("class_attrs", sorted(collect_class_attrs(t, n)))
    \o SummaryLine("instance_attrs", sorted(collect_instance_attrs(t, n)))
    \o SummaryLine("properties", collect_properties(t, n))

\* a class body declares each property once (the setter reuses the name
\* under another decorator)
DeclaresProperty(st) ==
    \E d \in 1..Len(st.node.decorator_list) : IsPropertyDecorator(st.node.decorator_list[d])

DistinctProperties(stmts) ==
    \A j, k \in 1..Len(stmts) :
        (j < k /\ DeclaresProperty(stmts[j]) /\ DeclaresProperty(stmts[k]))
            => stmts[j].node.name # stmts[k].node.name

InitPy ==
    /\ lang = "py"
    /\ pc = "start"
    /\ result = "none"
    /\ \/ /\ io = "ok" /\ src = "ok"
          /\ \E n \in 0..MaxNodes : \E par \in Shapes(n), kd \in [1..n -> Kinds] :
                tree = ShapeTree(par, kd)
       \/ /\ io = "ok" /\ src = "ok"
          /\ \E m, n \in 0..MaxArgs :
                \E po \in [1..m -> ArgChoices], ar \in [1..n -> ArgChoices],
                   k \in FuncKinds, va \in {None, "rest"}, kw \in {None, "opts"},
                   rt \in {None, "int"} :
                   tree = SignatureTree(k, po, ar, va, kw, rt)
       \/ /\ io = "ok" /\ src = "ok"
          /\ \E n \in 0..MaxBody : \E stmts \in [1..n -> BodyChoices] :
                DistinctProperties(stmts) /\ tree = ClassTree(stmts)
       \/ io = "unreadable" /\ src = "ok" /\ tree = <<>>
       \/ io = "ok" /\ src \in {"SyntaxError", "RecursionError"} /\ tree = <<>>
    /\ todo = <<>>
    /\ IdleScan /\ IdleClean /\ NoRecords

PyUnch == <<lang, io, src, tree, lines, i, p_in, p_list, p_out, p_calls>>

\* file.read_text raises OSError: no handler, the error reaches the caller
PyReadFails ==
    /\ lang = "py" /\ pc = "start" /\ io = "unreadable"
    /\ pc' = "raised" /\ result' = "OSError"
    /\ UNCHANGED <<todo, func_lines, cls_lines>> /\ UNCHANGED PyUnch

\* except SyntaxError: return [], []
PySyntaxError ==
    /\ lang = "py" /\ pc = "start" /\ io = "ok" /\ src = "SyntaxError"
    /\ pc' = "done" /\ result' = "returned"
    /\ func_lines' = <<>> /\ cls_lines' = <<>>
    /\ UNCHANGED todo /\ UNCHANGED PyUnch

\* ast.parse raises something that is no SyntaxError (too deeply nested source)
PyParseRaises ==
    /\ lang = "py" /\ pc = "start" /\ io = "ok" /\ src = "RecursionError"
    /\ pc' = "raised" /\ result' = src
    /\ UNCHANGED <<todo, func_lines, cls_lines>> /\ UNCHANGED PyUnch

PyParsed ==
    /\ lang = "py" /\ pc = "start" /\ io = "ok" /\ src = "ok"
    /\ pc' = "walk" /\ todo' = <<0>>
    /\ func_lines' = <<>> /\ cls_lines' = <<>>
    /\ UNCHANGED result /\ UNCHANGED PyUnch

\* one iteration of `for node in ast.walk(tree)`
PyWalkStep ==
    /\ lang = "py" /\ pc = "walk" /\ todo # <<>>
    /\ todo' = WalkTodo(tree, todo)
    /\ LET node == Head(todo) IN
        /\ func_lines' = IF KindOf(tree, node) \in FuncKinds
                         THEN Append(func_lines, FunctionLine(tree, node)) ELSE func_lines
        /\ cls_lines' = IF KindOf(tree, node) = "ClassDef"
                        THEN cls_lines \o ClassLines(tree, node) ELSE cls_lines
    /\ UNCHANGED <<pc, result>> /\ UNCHANGED PyUnch

PyReturn ==
    /\ lang = "py" /\ pc = "walk" /\ todo = <<>>
    /\ pc' = "done" /\ result' = "returned"
    /\ UNCHANGED <<todo, func_lines, cls_lines>> /\ UNCHANGED PyUnch

NextPy == PyReadFails \/ PySyntaxError \/ PyParseRaises \/ PyParsed \/ PyWalkStep \/ PyReturn

SpecPy == InitPy /\ [][NextPy]_vars

----------------------------------------------------------------------------
(* Claims about extract_from_file *)

FuncNodes(t) == {n \in 1..Len(t) : t[n].kind \in FuncKinds}

RECURSIVE Depth(_, _)
Depth(t, n) == IF n = 0 THEN 0 ELSE 1 + Depth(t, t[n].parent)

RECURSIVE PreOrder(_, _)
RECURSIVE PreOrderAll(_, _)
PreOrder(t, n) == <<n>> \o PreOrderAll(t, Children(t, n))
PreOrderAll(t, ns) == IF ns = <<>> THEN <<>> ELSE PreOrder(t, Head(ns)) \o PreOrderAll(t, Tail(ns))

IsFuncNode(n) == n # 0 /\ tree[n].kind \in FuncKinds

RecordedNodes == [k \in 1..Len(func_lines) |-> func_lines[k].line]

OnePerDefinition ==
    /\ Len(func_lines) = Cardinality(FuncNodes(tree))
    /\ {func_lines[k].line : k \in 1..Len(func_lines)} = FuncNodes(tree)

\* C1 as stated: one function record per definition, in the order of a
\* pre-order (depth-first) walk of the tree.
C1_PreOrderOriginal ==
    (lang = "py" /\ pc = "done" /\ src = "ok") =>
        /\ OnePerDefinition
        /\ RecordedNodes = SelectSeq(PreOrder(tree, 0), IsFuncNode)

\* C1 amended: one function record per definition at any depth, in level
\* order: definitions of smaller nesting depth first and, within one depth,
\* in source order.
C1_LevelOrder ==
    (lang = "py" /\ pc = "done" /\ src = "ok") =>
        /\ OnePerDefinition
        /\ \A j, k \in 1..Len(func_lines) :
              j < k => \/ Depth(tree, func_lines[j].line) < Depth(tree, func_lines[k].line)
                       \/ /\ Depth(tree, func_lines[j].line) = Depth(tree, func_lines[k].line)
                          /\ func_lines[j].line < func_lines[k].line

\* a class with a method, then a top-level function: the function comes first
C1_Witness ==
    /\ lang = "py" /\ pc = "done" /\ Len(tree) = 3
    /\ tree[1].kind = "ClassDef" /\ tree[2].kind = "FunctionDef" /\ tree[2].parent = 1
    /\ tree[3].kind = "FunctionDef" /\ tree[3].parent = 0
    /\ RecordedNodes = <<3, 2>>

\* C2: no single-file extraction raises to the caller, and every failure
\* outcome returns two empty sequences.
C2_NeverRaises ==
    /\ result \in {"none", "returned"}
    /\ (pc = "done" /\ (io # "ok" \/ src # "ok")) => (func_lines = <<>> /\ cls_lines = <<>>)

\* every positional parameter of a definition, rendered
RenderArgsAll(arguments) ==
    [k \in 1..Len(arguments.posonlyargs \o arguments.args) |->
        RenderArg((arguments.posonlyargs \o arguments.args)[k])]

\* C10: the record lists every positional parameter, positional-only ones
\* included, annotated as `name: annotation`, then *vararg, then **kwarg, and
\* ends with the return annotation or Unknown.
C10_AllPositional ==
    (lang = "py" /\ pc = "done" /\ src = "ok") =>
        \A k \in 1..Len(func_lines) :
            LET nd == tree[func_lines[k].line] IN
            /\ func_lines[k].args =
                  RenderArgsAll(nd.arguments)
                  \o (IF nd.arguments.vararg # None THEN << <<"*", nd.arguments.vararg>> >> ELSE <<>>)
                  \o (IF nd.arguments.kwarg # None THEN << <<"**", nd.arguments.kwarg>> >> ELSE <<>>)
            /\ func_lines[k].ret = (IF nd.returns # None THEN nd.returns ELSE "Unknown")

IsSummary(r) == "label" \in DOMAIN r

NameSorted(items) ==
    \A j, k \in 1..Len(items) : j < k => Rank(items[j][1]) <= Rank(items[k][1])

NoNameTwice(items) ==
    \A j, k \in 1..Len(items) : j # k => items[j][1] # items[k][1]

\* the class a summary line belongs to: the one of the nearest header above it
RECURSIVE OwnerOf(_)
OwnerOf(k) == IF IsSummary(cls_lines[k]) THEN OwnerOf(k - 1) ELSE cls_lines[k].line

IsProperty(n) ==
    /\ tree[n].kind = "FunctionDef"
    /\ \E d \in 1..Len(tree[n].decorator_list) : IsPropertyDecorator(tree[n].decorator_list[d])

DeclaredProperties(cls) ==
    LET props == SelectSeq(Children(tree, cls), IsProperty) IN
    [k \in 1..Len(props) |-> tree[props[k]].name]

\* C11: in a class record the class_attrs and instance_attrs summaries are in
\* name-sorted order, the properties summary is in declaration order, and no
\* summary line lists the same attribute name more than once.
C11_AttributeSummaries ==
    (lang = "py" /\ pc = "done" /\ src = "ok") =>
        \A k \in 1..Len(cls_lines) :
            IsSummary(cls_lines[k]) =>
                /\ NoNameTwice(cls_lines[k].items)
                /\ cls_lines[k].label \in {"class_attrs", "instance_attrs"}
                      => NameSorted(cls_lines[k].items)
                /\ cls_lines[k].label = "properties"
                      => [j \in 1..Len(cls_lines[k].items) |-> cls_lines[k].items[j][1]]
                            = DeclaredProperties(OwnerOf(k))

----------------------------------------------------------------------------
(* Token-level reading of the regular expressions (re.search: leftmost match) *)

Punct == {"(", ")", "{", "}", "=", "=>", ";", ":", ",", "//", "<eol>"}

Tok(l, k) == IF k \in 1..Len(l) THEN l[k] ELSE "<eol>"

\* \w+
IsWord(t) == t \notin Punct

\* the characters of a token, as far as the code tells them apart: the arrow
\* is a "=" followed by a ">", every other token is one unit
Chars(t) == IF t = "=>" THEN <<"=", ">">> ELSE <<t>>

\* the text of a run of tokens: one blank between neighbours
RECURSIVE Text(_)
Text(ts) == IF ts = <<>> THEN <<>>
            ELSE IF Len(ts) = 1 THEN Chars(ts[1])
            ELSE Chars(ts[1]) \o <<" ">> \o Text(Tail(ts))

\* index of the first token `stop` at or after k, Len(l) + 1 when there is none
RECURSIVE FirstAt(_, _, _)
FirstAt(l, k, stop) ==
    IF k > Len(l) THEN Len(l) + 1
    ELSE IF l[k] = stop THEN k ELSE FirstAt(l, k + 1, stop)

\* \(([^)]*)\) with the "(" at index open: index of the closing ")", 0 if none
CloseOf(l, open) == IF FirstAt(l, open + 1, ")") > Len(l) THEN 0 ELSE FirstAt(l, open + 1, ")")

\* \s*([^X]+) (blank optional) or \s+([^X]+) (blank needed) from token k on:
\* the captured text, None when the group cannot match
Capture(l, k, stop, blankNeeded) ==
    IF k > Len(l) THEN None
    ELSE LET e == FirstAt(l, k, stop) IN
         IF e = k THEN (IF blankNeeded THEN None ELSE <<" ">>)
         ELSE Text(SubSeq(l, k, e - 1)) \o (IF e <= Len(l) THEN <<" ">> ELSE <<>>)

NoHead == [open |-> 0, name |-> None]

\* the smallest of the start indices at which a pattern matches, 0 when the
\* search fails
Leftmost(starts) == IF starts = {} THEN 0 ELSE CHOOSE s \in starts : \A t \in starts : s <= t

----------------------------------------------------------------------------
(* javascript_parser.py: function_patterns, class_patterns, default_export_pattern *)

\* head of function pattern idx tried at token s: where its "(" is, and group 1
JsHead(idx, l, s) ==
    CASE idx = 0 ->   \* export\s+default\s+function\s*(\w+)?\s*\(
           IF Tok(l, s) = "export" /\ Tok(l, s + 1) = "default" /\ Tok(l, s + 2) = "function"
           THEN IF IsWord(Tok(l, s + 3)) /\ Tok(l, s + 4) = "("
                THEN [open |-> s + 4, name |-> Tok(l, s + 3)]
                ELSE IF Tok(l, s + 3) = "(" THEN [open |-> s + 3, name |-> None] ELSE NoHead
           ELSE NoHead
      [] idx = 1 ->   \* export\s+(?:async\s+)?function\s+(\w+)\s*\(
           LET f == IF Tok(l, s + 1) = "async" THEN s + 2 ELSE s + 1 IN
           IF Tok(l, s) = "export" /\ Tok(l, f) = "function" /\ IsWord(Tok(l, f + 1))
              /\ Tok(l, f + 2) = "("
           THEN [open |-> f + 2, name |-> Tok(l, f + 1)] ELSE NoHead
      [] idx = 2 ->   \* (?:async\s+)?function\s+(\w+)\s*\(
           LET f == IF Tok(l, s) = "async" THEN s + 1 ELSE s IN
           IF Tok(l, f) = "function" /\ IsWord(Tok(l, f + 1)) /\ Tok(l, f + 2) = "("
           THEN [open |-> f + 2, name |-> Tok(l, f + 1)] ELSE NoHead
      [] idx = 3 ->   \* (?:export\s+)?(?:const|let|var)\s+(\w+)\s*=\s*(?:async\s+)?\(
           LET c == IF Tok(l, s) = "export" THEN s + 1 ELSE s
               a == IF Tok(l, c + 3) = "async" THEN c + 4 ELSE c + 3 IN
           IF Tok(l, c) \in {"const", "let", "var"} /\ IsWord(Tok(l, c + 1))
              /\ Tok(l, c + 2) = "=" /\ Tok(l, a) = "("
           THEN [open |-> a, name |-> Tok(l, c + 1)] ELSE NoHead
      [] idx = 4 ->   \* export\s+default\s*(?:async\s+)?\(
           LET a == IF Tok(l, s + 2) = "async" THEN s + 3 ELSE s + 2 IN
           IF Tok(l, s) = "export" /\ Tok(l, s + 1) = "default" /\ Tok(l, a) = "("
           THEN [open |-> a, name |-> None] ELSE NoHead
      [] OTHER ->     \* (\w+)\s*\(
           IF IsWord(Tok(l, s)) /\ Tok(l, s + 1) = "("
           THEN [open |-> s + 1, name |-> Tok(l, s)] ELSE NoHead

\* what has to follow the ")": \s*=> for the arrow patterns, \s*{ for the last one
JsTail(idx, l, close) ==
    CASE idx \in {3, 4} -> Tok(l, close + 1) = "=>"
      [] idx = 5 -> Tok(l, close + 1) = "{"
      [] OTHER -> TRUE

JsMatchAt(idx, l, s) ==
    LET h == JsHead(idx, l, s) IN
    /\ h.open # 0
    /\ CloseOf(l, h.open) # 0
    /\ JsTail(idx, l, CloseOf(l, h.open))

\* whether re.search(function_patterns[idx], line) finds a match
JsFound(idx, l) == \E s \in 1..Len(l) : JsMatchAt(idx, l, s)

\* re.search(function_patterns[idx], line): name is group 1 (None when it did
\* not take part), params the text between the parentheses
JsSearch(idx, l) ==
    LET s0 == Leftmost({s \in 1..Len(l) : JsMatchAt(idx, l, s)}) IN
    IF s0 = 0 THEN [found |-> FALSE, name |-> None, params |-> <<>>]
    ELSE LET h == JsHead(idx, l, s0) IN
         [found |-> TRUE, name |-> h.name,
          params |-> Text(SubSeq(l, h.open + 1, CloseOf(l, h.open) - 1))]

\* class_patterns[idx] tried at token s
JsClassAt(idx, l, s) ==
    CASE idx = 0 ->   \* export\s+default\s+class\s+(\w+)?
           Tok(l, s) = "export" /\ Tok(l, s + 1) = "default" /\ Tok(l, s + 2) = "class"
           /\ s + 3 <= Len(l)
      [] idx = 1 ->   \* export\s+class\s+(\w+)
           Tok(l, s) = "export" /\ Tok(l, s + 1) = "class" /\ IsWord(Tok(l, s + 2))
      [] OTHER ->     \* class\s+(\w+)
           Tok(l, s) = "class" /\ IsWord(Tok(l, s + 1))

JsClassSearch(idx, l) ==
    LET s0 == Leftmost({s \in 1..Len(l) : JsClassAt(idx, l, s)})
        n == IF idx = 0 THEN s0 + 3 ELSE IF idx = 1 THEN s0 + 2 ELSE s0 + 1 IN
    IF s0 = 0 THEN [found |-> FALSE, name |-> None]
    ELSE [found |-> TRUE, name |-> IF IsWord(Tok(l, n)) THEN Tok(l, n) ELSE None]

\* export\s+default\s+(\w+)\s*;
JsDefaultExportAt(l, s) ==
    Tok(l, s) = "export" /\ Tok(l, s + 1) = "default" /\ IsWord(Tok(l, s + 2)) /\ Tok(l, s + 3) = ";"

JsDefaultExportSearch(l) ==
    LET s0 == Leftmost({s \in 1..Len(l) : JsDefaultExportAt(l, s)}) IN
    IF s0 = 0 THEN [found |-> FALSE, name |-> None] ELSE [found |-> TRUE, name |-> Tok(l, s0 + 2)]

----------------------------------------------------------------------------
(* javascript_parser.py: JavaScriptParser._parse_with_regex, one line *)

FileName(lg) == IF lg = "js" THEN "sample.js" ELSE IF lg = "ts" THEN "sample.ts" ELSE RelPath

\* f"{rel_path}:{i}: {func_name}({params})", with " -> {return_type}" in TypeScript
FuncRecord(lg, n, nm, ps, rt) ==
    [path |-> FileName(lg), line |-> n, kind |-> "function", name |-> nm, params |-> ps, ret |-> rt]

\* f"{rel_path}:{i}: export default {match.group(1)}"
DefaultExportRecord(lg, n, nm) ==
    [path |-> FileName(lg), line |-> n, kind |-> "export default", name |-> nm,
     params |-> <<>>, ret |-> None]

\* f"{rel_path}:{i}: class {class_name}" plus the TypeScript clauses
ClassRecord(lg, n, nm, ext, impl) ==
    [path |-> FileName(lg), line |-> n, name |-> nm, extends |-> ext, implements |-> impl]

Anonymous == "<anonymous>"

JsPatternCount == 6
JsClassPatternCount == 3

\* (the last pattern that matches, instead of the first)
RECURSIVE JsLastFunctionPattern(_, _)
JsLastFunctionPattern(l, idx) ==
    IF idx >= JsPatternCount THEN JsPatternCount
    ELSE IF JsLastFunctionPattern(l, idx + 1) < JsPatternCount
         THEN JsLastFunctionPattern(l, idx + 1)
    ELSE IF JsFound(idx, l) THEN idx ELSE JsPatternCount

\* for idx, pattern in enumerate(function_patterns): the first idx that matches
RECURSIVE JsFirstFunctionPattern(_, _)
JsFirstFunctionPattern(l, idx) ==
    IF idx >= JsPatternCount THEN JsPatternCount
    ELSE IF JsFound(idx, l) THEN idx ELSE JsFirstFunctionPattern(l, idx + 1)

RECURSIVE JsFirstClassPattern(_, _)
JsFirstClassPattern(l, idx) ==
    IF idx >= JsClassPatternCount THEN JsClassPatternCount
    ELSE IF JsClassSearch(idx, l).found THEN idx ELSE JsFirstClassPattern(l, idx + 1)

JsFunctionRecord(l, n, idx) ==
    LET m == JsSearch(idx, l)
        func_name == IF idx = 4 THEN Anonymous
                     ELSE IF m.name # None THEN m.name ELSE Anonymous
    IN  FuncRecord("js", n, func_name, clean_js_params(Strip(m.params)), None)

JsClassLines(l, n) ==
    LET c == JsFirstClassPattern(l, 0) IN
    IF c >= JsClassPatternCount THEN <<>>
    ELSE LET m == JsClassSearch(c, l) IN
         << ClassRecord("js", n, IF m.name # None THEN m.name ELSE Anonymous, <<>>, <<>>) >>

\* the body of `for i, raw in enumerate(lines, 1)`: what line l, numbered n, adds
JsScanLine(l, n) ==
    LET f == JsFirstFunctionPattern(l, 0)
        d == JsDefaultExportSearch(l) IN
    IF l = <<>> THEN [funcs |-> <<>>, classes |-> <<>>]                 \* if not line: continue
    ELSE IF f < JsPatternCount
         THEN [funcs |-> << JsFunctionRecord(l, n, f) >>, classes |-> <<>>]   \* if matched: continue
    ELSE IF d.found
         THEN [funcs |-> << DefaultExportRecord("js", n, d.name) >>,
               classes |-> <<>>]                                        \* continue
    ELSE [funcs |-> <<>>, classes |-> JsClassLines(l, n)]

----------------------------------------------------------------------------
(* typescript_parser.py: function_patterns, class_patterns *)

TsPatternCount == 3
TsClassPatternCount == 3

TsHead(idx, l, s) ==
    CASE idx = 0 ->   \* (?:export\s+)?(?:async\s+)?function\s+(\w+)\s*\(
           LET a == IF Tok(l, s) = "export" THEN s + 1 ELSE s
               f == IF Tok(l, a) = "async" THEN a + 1 ELSE a IN
           IF Tok(l, f) = "function" /\ IsWord(Tok(l, f + 1)) /\ Tok(l, f + 2) = "("
           THEN [open |-> f + 2, name |-> Tok(l, f + 1)] ELSE NoHead
      [] idx = 1 ->   \* (?:export\s+)?(?:const|let|var)\s+(\w+)\s*[:=]\s*(?:async\s+)?\(
           LET c == IF Tok(l, s) = "export" THEN s + 1 ELSE s
               a == IF Tok(l, c + 3) = "async" THEN c + 4 ELSE c + 3 IN
           IF Tok(l, c) \in {"const", "let", "var"} /\ IsWord(Tok(l, c + 1))
              /\ Tok(l, c + 2) \in {":", "="} /\ Tok(l, a) = "("
           THEN [open |-> a, name |-> Tok(l, c + 1)] ELSE NoHead
      [] OTHER ->     \* (\w+)\s*\(
           IF IsWord(Tok(l, s)) /\ Tok(l, s + 1) = "("
           THEN [open |-> s + 1, name |-> Tok(l, s)] ELSE NoHead

TsMatchAt(idx, l, s) ==
    LET h == TsHead(idx, l, s) IN h.open # 0 /\ CloseOf(l, h.open) # 0

\* group 3, (?:\s*:\s*([^{]+))?, exists in patterns 0 and 2 only
TsReturnGroup(idx, l, close) ==
    IF idx # 1 /\ Tok(l, close + 1) = ":" THEN Capture(l, close + 2, "{", FALSE) ELSE None

TsFound(idx, l) == \E s \in 1..Len(l) : TsMatchAt(idx, l, s)

TsSearch(idx, l) ==
    LET s0 == Leftmost({s \in 1..Len(l) : TsMatchAt(idx, l, s)}) IN
    IF s0 = 0 THEN [found |-> FALSE, name |-> None, params |-> <<>>, ret |-> None]
    ELSE LET h == TsHead(idx, l, s0) IN
         [found |-> TRUE, name |-> h.name,
          params |-> Text(SubSeq(l, h.open + 1, CloseOf(l, h.open) - 1)),
          ret |-> TsReturnGroup(idx, l, CloseOf(l, h.open))]

\* class_patterns[idx] tried at token s: [ok, name, group 2, group 3]
NoClass == [ok |-> FALSE, name |-> None, g2 |-> None, g3 |-> None]

TsClassAt(idx, l, s) ==
    LET e == IF Tok(l, s) = "export" THEN s + 1 ELSE s IN
    CASE idx = 0 ->   \* (?:export\s+)?(?:abstract\s+)?class\s+(\w+)
                      \* (?:\s+extends\s+(\w+))?(?:\s+implements\s+([^{]+))?
           LET c == IF Tok(l, e) = "abstract" THEN e + 1 ELSE e
               hasExt == Tok(l, c + 2) = "extends" /\ IsWord(Tok(l, c + 3))
               nx == IF hasExt THEN c + 4 ELSE c + 2 IN
           IF Tok(l, c) = "class" /\ IsWord(Tok(l, c + 1))
           THEN [ok |-> TRUE, name |-> Tok(l, c + 1),
                 g2 |-> IF hasExt THEN <<Tok(l, c + 3)>> ELSE None,
                 g3 |-> IF Tok(l, nx) = "implements" THEN Capture(l, nx + 1, "{", TRUE) ELSE None]
           ELSE NoClass
      [] idx = 1 ->   \* (?:export\s+)?interface\s+(\w+)(?:\s+extends\s+([^{]+))?
           IF Tok(l, e) = "interface" /\ IsWord(Tok(l, e + 1))
           THEN [ok |-> TRUE, name |-> Tok(l, e + 1),
                 g2 |-> IF Tok(l, e + 2) = "extends" THEN Capture(l, e + 3, "{", TRUE) ELSE None,
                 g3 |-> None]
           ELSE NoClass
      [] OTHER ->     \* (?:export\s+)?type\s+(\w+)\s*=\s*([^;]+)
           IF Tok(l, e) = "type" /\ IsWord(Tok(l, e + 1)) /\ Tok(l, e + 2) = "="
              /\ Capture(l, e + 3, ";", FALSE) # None
           THEN [ok |-> TRUE, name |-> Tok(l, e + 1), g2 |-> Capture(l, e + 3, ";", FALSE),
                 g3 |-> None]
           ELSE IF Tok(l, e) = "type" /\ IsWord(Tok(l, e + 1)) /\ Tok(l, e + 2) = "=>"
           THEN \* the "=" of an arrow: group 2 starts with its ">"
                [ok |-> TRUE, name |-> Tok(l, e + 1),
                 g2 |-> <<">">> \o (IF e + 3 > Len(l) THEN <<>>
                                    ELSE IF Tok(l, e + 3) = ";" THEN <<" ">>
                                    ELSE <<" ">> \o Capture(l, e + 3, ";", FALSE)),
                 g3 |-> None]
           ELSE NoClass

TsClassSearch(idx, l) ==
    LET s0 == Leftmost({s \in 1..Len(l) : TsClassAt(idx, l, s).ok}) IN
    IF s0 = 0 THEN NoClass ELSE TsClassAt(idx, l, s0)

----------------------------------------------------------------------------
(* typescript_parser.py: TypeScriptParser._parse_with_regex, one line *)

RECURSIVE TsFirstFunctionPattern(_, _)
TsFirstFunctionPattern(l, idx) ==
    IF idx >= TsPatternCount THEN TsPatternCount
    ELSE IF TsFound(idx, l) THEN idx ELSE TsFirstFunctionPattern(l, idx + 1)

RECURSIVE TsFirstClassPattern(_, _)
TsFirstClassPattern(l, idx) ==
    IF idx >= TsClassPatternCount THEN TsClassPatternCount
    ELSE IF TsClassSearch(idx, l).ok THEN idx ELSE TsFirstClassPattern(l, idx + 1)

\* (one record for every pattern found in the line: no break)
TsFunctionLinesNoBreak(l, n) ==
    Concat([k \in 1..TsPatternCount |->
        IF TsFound(k - 1, l)
        THEN LET m == TsSearch(k - 1, l)
                 params == Strip(m.params)
             IN  << FuncRecord("ts", n, m.name,
                               IF params # <<>> THEN clean_typescript_params(params) ELSE params,
                               IF m.ret # None THEN Strip(m.ret) ELSE <<"any">>) >>
        ELSE <<>>])

TsFunctionLines(l, n) ==
    LET f == TsFirstFunctionPattern(l, 0) IN
    IF f >= TsPatternCount THEN <<>>
    ELSE LET m == TsSearch(f, l)
             params == Strip(m.params)
         IN  << FuncRecord("ts", n, m.name,
                           IF params # <<>> THEN clean_typescript_params(params) ELSE params,
                           IF m.ret # None THEN Strip(m.ret) ELSE <<"any">>) >>

TsClassLines(l, n) ==
    LET c == TsFirstClassPattern(l, 0) IN
    IF c >= TsClassPatternCount THEN <<>>
    ELSE LET m == TsClassSearch(c, l) IN
         << ClassRecord("ts", n, m.name,
                        IF m.g2 # None THEN m.g2 ELSE <<>>,
                        IF m.g3 # None THEN m.g3 ELSE <<>>) >>

TsScanLine(l, n) == [funcs |-> TsFunctionLines(l, n), classes |-> TsClassLines(l, n)]

----------------------------------------------------------------------------
(* The files handed to the two line scanners *)

JsCores ==
    { <<>>,
      <<"function", "foo", "(", "a", ",", "b", ")", "{", "}">>,
      <<"function", "(", "z", ")", "{", "}">>,
      <<"async", "function", "foo", "(", ")", "{", "}">>,
      <<"const", "bar", "=", "(", "x", ",", "y", "=", "1", ")", "=>", "{", "}", ";">>,
      <<"(", "q", ")", "=>", "{", "}", ";">>,
      <<"async", "(", "q", ")", "=>", "q">>,
      <<"bar", "(", "a", ")", "{">>,
      <<"foo", "(", "a", ")", ";">>,
      <<"qux", ";">>,
      <<"class", "Foo", "{", "}">>,
      <<"class", "{", "}">>,
      <<"class", "extends", "Base", "{", "}">>,
      <<"class", "Bar", "extends", "Baz", "{", "}">>,
      <<"class", "Foo", "{", "bar", "(", ")", "{", "}", "}">>,
      <<"function", "foo", "(", "a", ",", "b", "=", "f", "(", "1", ",", "2", ")", ")", "{", "}">> }

\* what is written after `export default`, after `export`, and in a comment
JsDefaultExported ==
    {c \in JsCores : c # <<>> /\ c[1] \in {"function", "async", "(", "qux", "class"}}

JsExported == {c \in JsCores : c # <<>> /\ c[1] \in {"function", "async", "const", "class"}
                                /\ Len(c) <= 14 /\ Tok(c, 2) \notin {"(", "{", "extends"}}

JsCommented ==
    { <<"qux", ";">>,
      <<"function", "foo", "(", "a", ",", "b", ")", "{", "}">>,
      <<"class", "Foo", "{", "}">>,
      <<"export", "default", "qux", ";">> }

JsLines ==
    JsCores \cup {<<"export", "default">> \o c : c \in JsDefaultExported}
            \cup {<<"export">> \o c : c \in JsExported}
            \cup {<<"//">> \o c : c \in JsCommented}

TsCores ==
    { <<>>,
      <<"function", "foo", "(", "a", ":", "T", ")", ":", "T", "{">>,
      <<"function", "foo", "(", "a", ")", "{">>,
      <<"async", "function", "foo", "(", "a", ",", "b", "=", "1", ")", ":", "T", "{">>,
      <<"const", "bar", "=", "(", "a", ")", ":", "T", "=>", "a">>,
      <<"const", "bar", "=", "(", "a", ")", "=>", "a">>,
      <<"bar", "(", "a", ")", ":", "T", "{">>,
      <<"bar", "(", ")", "{">>,
      <<"class", "Foo", "extends", "Base", "implements", "I", "{">>,
      <<"class", "Foo", "{", "bar", "(", ")", ":", "T", "{", "}", "}">>,
      <<"abstract", "class", "Foo", "{">>,
      <<"interface", "Foo", "extends", "Base", "{">>,
      <<"type", "Foo", "=", "T", ";">> }

TsExported == {c \in TsCores : c # <<>> /\ c[1] # "bar" /\ Len(c) <= 10}

TsCommented ==
    { <<"bar">>,
      <<"function", "foo", "(", "a", ")", "{">>,
      <<"abstract", "class", "Foo", "{">> }

TsLines ==
    TsCores \cup {<<"export">> \o c : c \in TsExported}
            \cup {<<"//">> \o c : c \in TsCommented}

LinesOf(lg) == IF lg = "js" THEN JsLines ELSE TsLines

InitScan ==
    /\ lang \in {"js", "ts"}
    /\ pc = "start"
    /\ result = "none"
    \* content.split("\n") never is empty: the empty file is the one blank line
    /\ \/ io = "ok" /\ \E n \in 1..MaxLines : lines \in [1..n -> LinesOf(lang)]
       \/ io = "unreadable" /\ lines = <<>>
    /\ i = 0
    /\ IdlePy /\ IdleClean /\ NoRecords

ScanUnch == <<lang, io, src, tree, todo, lines, p_in, p_list, p_out, p_calls>>

\* JavaScriptParser.parse_file: read_text raises, except Exception: return [], []
JsParseFails ==
    /\ lang = "js" /\ pc = "start" /\ io = "unreadable"
    /\ pc' = "done" /\ result' = "returned"
    /\ func_lines' = <<>> /\ cls_lines' = <<>>
    /\ UNCHANGED i /\ UNCHANGED ScanUnch

\* one iteration of the loop over enumerate(lines, 1)
JsScanStep ==
    /\ lang = "js" /\ pc \in {"start", "scan"} /\ io = "ok" /\ i < Len(lines)
    /\ i' = i + 1
    /\ LET found == JsScanLine(lines[i + 1], i + 1) IN
        /\ func_lines' = func_lines \o found.funcs
        /\ cls_lines' = cls_lines \o found.classes
    /\ pc' = "scan"
    /\ UNCHANGED result /\ UNCHANGED ScanUnch

JsReturn ==
    /\ lang = "js" /\ pc = "scan" /\ i = Len(lines)
    /\ pc' = "done" /\ result' = "returned"
    /\ UNCHANGED <<i, func_lines, cls_lines>> /\ UNCHANGED ScanUnch

\* TypeScriptParser.parse_file: read_text raises, except Exception: return [], []
TsParseFails ==
    /\ lang = "ts" /\ pc = "start" /\ io = "unreadable"
    /\ pc' = "done" /\ result' = "returned"
    /\ func_lines' = <<>> /\ cls_lines' = <<>>
    /\ UNCHANGED i /\ UNCHANGED ScanUnch

TsScanStep ==
    /\ lang = "ts" /\ pc \in {"start", "scan"} /\ io = "ok" /\ i < Len(lines)
    /\ i' = i + 1
    /\ LET found == TsScanLine(lines[i + 1], i + 1) IN
        /\ func_lines' = func_lines \o found.funcs
        /\ cls_lines' = cls_lines \o found.classes
    /\ pc' = "scan"
    /\ UNCHANGED result /\ UNCHANGED ScanUnch

TsReturn ==
    /\ lang = "ts" /\ pc = "scan" /\ i = Len(lines)
    /\ pc' = "done" /\ result' = "returned"
    /\ UNCHANGED <<i, func_lines, cls_lines>> /\ UNCHANGED ScanUnch

NextScan == JsParseFails \/ JsScanStep \/ JsReturn \/ TsParseFails \/ TsScanStep \/ TsReturn

SpecScan == InitScan /\ [][NextScan]_vars

----------------------------------------------------------------------------
(* Claims about the two line scanners *)

IsBlankOrComment(l) == l = <<>> \/ l[1] = "//"

\* C3: a file that is empty or whose every line is blank or a comment yields
\* two empty sequences, whatever the comments contain.
C3_CommentsYieldNothing ==
    (lang \in {"js", "ts"} /\ pc = "done" /\ io = "ok"
       /\ \A k \in 1..Len(lines) : IsBlankOrComment(lines[k]))
    => (func_lines = <<>> /\ cls_lines = <<>>)

JsMatching(l) == {idx \in 0..(JsPatternCount - 1) : JsFound(idx, l)}

JsBest(l) == CHOOSE idx \in JsMatching(l) : \A j \in JsMatching(l) : idx <= j

\* the record the claim gives line l, numbered n
JsExpectedFunction(l, n) ==
    IF JsMatching(l) # {}
    THEN LET m == JsSearch(JsBest(l), l)
             unnamed == JsBest(l) = 4 \/ (JsBest(l) = 0 /\ m.name = None)
         IN  << [path |-> "sample.js", line |-> n, kind |-> "function",
                 name |-> IF unnamed THEN "<anonymous>" ELSE m.name,
                 params |-> clean_js_params(Strip(m.params)), ret |-> None] >>
    ELSE IF \E s \in 1..Len(l) : JsDefaultExportAt(l, s)
    THEN << [path |-> "sample.js", line |-> n, kind |-> "export default",
             name |-> JsDefaultExportSearch(l).name, params |-> <<>>, ret |-> None] >>
    ELSE <<>>

RECURSIVE JsExpectedUpTo(_)
JsExpectedUpTo(n) ==
    IF n = 0 THEN <<>> ELSE JsExpectedUpTo(n - 1) \o JsExpectedFunction(lines[n], n)

\* the six lines of tests/test_javascript_parser.py and the records it expects
TestLines ==
    << <<"export", "function", "foo", "(", "a", ",", "b", ")", "{", "}">>,
       <<"const", "bar", "=", "(", "x", ",", "y", "=", "1", ")", "=>", "{", "}", ";">>,
       <<"export", "default", "function", "(", "z", ")", "{", "}">>,
       <<"export", "default", "(", "q", ")", "=>", "{", "}", ";">>,
       <<"async", "function", "foo", "(", ")", "{", "}">>,
       <<"export", "default", "qux", ";">> >>

TestRecords ==
    << <<"function", "foo", <<"a", ",", " ", "b">> >>,
       <<"function", "bar", <<"x", ",", " ", "y">> >>,
       <<"function", "<anonymous>", <<"z">> >>,
       <<"function", "<anonymous>", <<"q">> >>,
       <<"function", "foo", <<>> >>,
       <<"export default", "qux", <<>> >> >>

RecordsOfLine(recs, n) == SelectSeq(recs, LAMBDA r : r.line = n)

\* C4: the JavaScript function records are, line by line in line order, the
\* record shaped by the highest-priority function pattern found in the line
\* (<anonymous> for an unnamed default-exported function or arrow), else the
\* `export default <identifier>` record when that pattern is found in the
\* line, else nothing; the lines of the repository's test give its records.
C4_JsFunctionRecords ==
    (lang = "js" /\ pc = "done" /\ io = "ok") =>
        /\ func_lines = JsExpectedUpTo(i)
        /\ \A k \in 1..i : \A t \in 1..Len(TestLines) :
              lines[k] = TestLines[t] =>
                  /\ Len(RecordsOfLine(func_lines, k)) = 1
                  /\ LET r == RecordsOfLine(func_lines, k)[1]
                     IN  <<r.kind, r.name, r.params>> = TestRecords[t]

C4_Witness ==
    /\ lang = "js" /\ pc = "done"
    /\ lines = << TestLines[3], TestLines[6] >>
    /\ Len(func_lines) = 2
    /\ func_lines[1].name = "<anonymous>" /\ func_lines[1].line = 1
    /\ func_lines[2].kind = "export default" /\ func_lines[2].line = 2

\* a line that is a class declaration: [export [default]] class ...
ClassKeywordAt(l) ==
    IF Tok(l, 1) = "class" THEN 1
    ELSE IF Tok(l, 1) = "export" /\ Tok(l, 2) = "class" THEN 2
    ELSE IF Tok(l, 1) = "export" /\ Tok(l, 2) = "default" /\ Tok(l, 3) = "class" THEN 3
    ELSE 0

DeclaredClassName(l) ==
    LET t == Tok(l, ClassKeywordAt(l) + 1) IN
    IF IsWord(t) /\ t # "extends" THEN t ELSE "<anonymous>"

IsClassDeclaration(l) ==
    /\ ClassKeywordAt(l) # 0
    /\ DeclaredClassName(l) = "<anonymous>" => ClassKeywordAt(l) = 3

\* C5: every JavaScript line holding a class declaration yields exactly one
\* class record, carrying the declared name (or <anonymous>) and no
\* extends/implements clause.
C5_JsClassRecords ==
    (lang = "js" /\ io = "ok") =>
        \A k \in 1..i :
            IsClassDeclaration(lines[k]) =>
                /\ Len(RecordsOfLine(cls_lines, k)) = 1
                /\ RecordsOfLine(cls_lines, k)[1].name = DeclaredClassName(lines[k])
                /\ RecordsOfLine(cls_lines, k)[1].extends = <<>>
                /\ RecordsOfLine(cls_lines, k)[1].implements = <<>>

ClassPatternFound(lg, l) ==
    IF lg = "js" THEN \E idx \in 0..(JsClassPatternCount - 1) : JsClassSearch(idx, l).found
    ELSE \E idx \in 0..(TsClassPatternCount - 1) : TsClassSearch(idx, l).ok

\* C6: in both scanners a line in which a class pattern is found yields a
\* class record, whether or not the line also yielded a function record.
C6_ClassIndependentOfFunction ==
    (lang \in {"js", "ts"} /\ io = "ok") =>
        \A k \in 1..i :
            ClassPatternFound(lang, lines[k]) => RecordsOfLine(cls_lines, k) # <<>>

\* the return type written after the parameter list of the line's declaration
DeclaredReturnType(l) ==
    LET close == FirstAt(l, 1, ")") IN
    IF Tok(l, close + 1) = ":" /\ IsWord(Tok(l, close + 2)) THEN <<Tok(l, close + 2)>> ELSE None

\* C9: every TypeScript function record ends with the declared return type of
\* its declaration (function, arrow function or method) and with `any` only
\* when there is none.
C9_TsReturnType ==
    (lang = "ts" /\ io = "ok") =>
        \A k \in 1..Len(func_lines) :
            func_lines[k].ret =
                (IF DeclaredReturnType(lines[func_lines[k].line]) # None
                 THEN DeclaredReturnType(lines[func_lines[k].line]) ELSE <<"any">>)

TsMatching(l) == {idx \in 0..(TsPatternCount - 1) : TsFound(idx, l)}

TsBest(l) == CHOOSE idx \in TsMatching(l) : \A j \in TsMatching(l) : idx <= j

FunctionPatternFound(lg, l) ==
    IF lg = "js" THEN JsMatching(l) # {} \/ (\E s \in 1..Len(l) : JsDefaultExportAt(l, s))
    ELSE TsMatching(l) # {}

\* the name the highest-priority pattern found in line l captures
FirstMatchName(lg, l) ==
    IF lg = "ts" THEN TsSearch(TsBest(l), l).name
    ELSE IF JsMatching(l) = {} THEN JsDefaultExportSearch(l).name
    ELSE IF JsBest(l) = 4 \/ (JsBest(l) = 0 /\ JsSearch(JsBest(l), l).name = None)
         THEN "<anonymous>"
    ELSE JsSearch(JsBest(l), l).name

StrictlyIncreasing(recs) ==
    \A j, k \in 1..Len(recs) : j < k => recs[j].line < recs[k].line

\* C12: after either scanner has scanned a file, each line has contributed at
\* most one function record and at most one class record, every record
\* carries the 1-based index of a line in which a pattern of its kind is
\* found, a function record is the one of the first pattern found in its
\* line, and the line numbers of each output sequence strictly increase.
C12_OneRecordPerLine ==
    (lang \in {"js", "ts"} /\ pc = "done" /\ io = "ok") =>
        /\ \A n \in 1..Len(lines) :
              /\ Len(RecordsOfLine(func_lines, n)) <= 1
              /\ Len(RecordsOfLine(cls_lines, n)) <= 1
        /\ \A k \in 1..Len(func_lines) :
              /\ func_lines[k].line \in 1..Len(lines)
              /\ FunctionPatternFound(lang, lines[func_lines[k].line])
              /\ func_lines[k].name = FirstMatchName(lang, lines[func_lines[k].line])
        /\ \A k \in 1..Len(cls_lines) :
              /\ cls_lines[k].line \in 1..Len(lines)
              /\ ClassPatternFound(lang, lines[cls_lines[k].line])
        /\ StrictlyIncreasing(func_lines)
        /\ StrictlyIncreasing(cls_lines)

\* a blank line, then a declaration in which two function patterns are found:
\* one record, numbered 2
C12_Witness ==
    /\ lang = "ts" /\ pc = "done" /\ io = "ok"
    /\ lines = << <<>>, <<"function", "foo", "(", "a", ":", "T", ")", ":", "T", "{">> >>
    /\ Cardinality(TsMatching(lines[2])) >= 2
    /\ Len(func_lines) = 1 /\ func_lines[1].line = 2 /\ func_lines[1].name = "foo"
    /\ cls_lines = <<>>

----------------------------------------------------------------------------
(* The whole engine: any of the extractors, or a cleaner, is called *)

Init == InitPy \/ InitScan \/ InitClean

Next == NextPy \/ NextScan \/ NextClean

Spec == Init /\ [][Next]_vars

====
